---- MODULE Spec2Model ----
(***************************************************************************)
(* Model of the sales dashboard script src/app.py: the two tables          *)
(* load_data returns, the three sidebar filters, and the computations of   *)
(* one script run (filter, KPI metrics, group sums, customer               *)
(* distributions, top-10 rankings, daily trend).                           *)
(*                                                                         *)
(* A timestamp is the integer  day * TimesPerDay + time-of-day ;  money is *)
(* an integer; a pandas Series is a sequence of [key, value] records in    *)
(* the Series' order; a DataFrame is a sequence of row records.            *)
(***************************************************************************)
EXTENDS Integers, Sequences, FiniteSets, TLC

VARIABLES
    cache,             \* what st.cache_data holds for load_data()
    customer_df,       \* this run's copy of the customer table
    sales_df,          \* this run's copy of the transaction table
    date_range,        \* value of the date_input widget (tuple of 1 or 2 days)
    regions,           \* value of the region multiselect
    categories,        \* value of the category multiselect
    pc,                \* position of the script run
    err,               \* exception that ended the run, or "none"
    filtered_sales,
    total_sales,
    transaction_count,
    avg_transaction,
    unique_customers,
    region_sales,
    category_sales,
    payment_method,
    grade_sales,
    age_dist,
    top_products,
    top_customers,
    daily_sales

vars == <<cache, customer_df, sales_df, date_range, regions, categories, pc, err,
          filtered_sales, total_sales, transaction_count, avg_transaction,
          unique_customers, region_sales, category_sales, payment_method,
          grade_sales, age_dist, top_products, top_customers, daily_sales>>

----------------------------------------------------------------------------
(* Bounds of the model *)

\* longest transaction table drawn from SalesRows
MaxRows == 3
\* longest customer table
MaxCustomers == 2
\* calendar days that occur
MaxDay == 3
\* times of day that occur on one calendar day
TimesPerDay == 2

\* head(10) of the two top rankings
TopN == 10

Min(a, b) == IF a <= b THEN a ELSE b

Days == 1..MaxDay

\* pd.to_datetime: the timestamp of a time of day on a calendar day
Timestamp(day, tod) == day * TimesPerDay + tod

\* Series.dt.date / Timestamp.date(): the calendar date of a timestamp
DateOf(ts) == ts \div TimesPerDay

----------------------------------------------------------------------------
(* The string values of the key columns, in lexicographic order: the order *)
(* groupby(sort=True) gives the group keys.                                *)

ProductNames == <<"P01", "P02", "P03", "P04", "P05", "P06",
                  "P07", "P08", "P09", "P10", "P11", "P12">>

CustomerNames == <<"N01", "N02", "N03", "N04", "N05", "N06",
                   "N07", "N08", "N09", "N10", "N11", "N12">>

KeyOrder == <<"Books", "Busan", "Card", "Cash", "Food", "Gold">>
            \o CustomerNames \o ProductNames \o <<"Seoul", "Silver">>

KeyRank(col, k) ==
    IF col = "date" THEN k
    ELSE CHOOSE i \in 1..Len(KeyOrder) : KeyOrder[i] = k

SalesRow(ts, cid, prod, cat, tot, pay, reg, grd) ==
    [date |-> ts, customer_id |-> cid, name |-> CustomerNames[cid],
     product_name |-> prod, category |-> cat, total |-> tot,
     payment |-> pay, region |-> reg, grade |-> grd]

\* rows of sales_data_csv_file.csv the small tables are drawn from
SalesRows ==
    { SalesRow(Timestamp(1, 0), 1, "P01", "Books", 2,  "Card", "Seoul", "Gold"),
      SalesRow(Timestamp(1, 1), 2, "P02", "Food",  3,  "Cash", "Seoul", "Silver"),
      SalesRow(Timestamp(2, 0), 1, "P02", "Food",  2,  "Cash", "Busan", "Gold"),
      SalesRow(Timestamp(2, 1), 3, "P01", "Books", 0 - 1, "Card", "Busan", "Silver"),
      SalesRow(Timestamp(3, 0), 2, "P03", "Books", 0,  "Cash", "Seoul", "Silver"),
      SalesRow(Timestamp(MaxDay, TimesPerDay - 1), 3, "P03", "Food", 1, "Card", "Busan", "Gold") }

SeqsUpTo(S, n) == UNION { [1..k -> S] : k \in 0..n }

\* a table of n rows with n distinct products and customers; v chooses the totals
BigRow(i, v) ==
    SalesRow(Timestamp((i % MaxDay) + 1, i % TimesPerDay), i, ProductNames[i],
             IF i % 2 = 0 THEN "Books" ELSE "Food",
             IF v = 1 THEN i ELSE IF v = 2 THEN (i + 1) \div 2 ELSE 13 - i,
             IF i % 3 = 0 THEN "Card" ELSE "Cash",
             IF i % 4 < 2 THEN "Seoul" ELSE "Busan",
             IF i % 2 = 0 THEN "Gold" ELSE "Silver")

BigTables == { [i \in 1..n |-> BigRow(i, v)] : n \in {TopN + 1, TopN + 2}, v \in 1..3 }

SalesTables == (SeqsUpTo(SalesRows, MaxRows) \ {<<>>}) \cup BigTables

\* ages of customer_data_csv.csv: the bin edges, their neighbours, and beyond
Ages == {0 - 3, 0, 1, 20, 21, 30, 40, 50, 60, 61, 100, 101, 150}

CustomerTables ==
    UNION { { [i \in 1..k |-> [customer_id |-> i, age |-> a[i]]] : a \in [1..k -> Ages] }
            : k \in 0..MaxCustomers }

----------------------------------------------------------------------------
(* pandas operations the script uses *)

RECURSIVE SumTotal(_)
\* Series.sum() of the total column; 0 for no rows
SumTotal(rows) ==
    IF rows = <<>> THEN 0 ELSE Head(rows).total + SumTotal(Tail(rows))

\* Mask with the end date left out of the range
MaskExclusiveEnd(row, dr, regs, cats) ==
    /\ DateOf(row.date) >= dr[1]
    /\ DateOf(row.date) < dr[2]
    /\ row.region \in regs
    /\ row.category \in cats

\* Mask with the two dates put in order first
MaskSortedRange(row, dr, regs, cats) ==
    /\ DateOf(row.date) >= Min(dr[1], dr[2])
    /\ DateOf(row.date) <= IF dr[1] <= dr[2] THEN dr[2] ELSE dr[1]
    /\ row.region \in regs
    /\ row.category \in cats

\* the boolean mask of the filter, for one row
Mask(row, dr, regs, cats) ==
    /\ DateOf(row.date) >= dr[1]
    /\ DateOf(row.date) <= dr[2]
    /\ row.region \in regs
    /\ row.category \in cats

\* df[mask]: the rows whose mask is true, in the table's order
Filter(df, dr, regs, cats) ==
    LET keep(row) == Mask(row, dr, regs, cats)
    IN  SelectSeq(df, keep)

\* Series.mean() as the exact fraction sum/count; [0, 0] stands for NaN
Mean(rows) == [num |-> SumTotal(rows), den |-> Len(rows)]

Zero == [num |-> 0, den |-> 1]

\* AvgTransaction without its guard
MeanUnguarded(rows, count) == Mean(rows)

\* filtered_sales['total'].mean() if transaction_count > 0 else 0
AvgTransaction(rows, count) == IF count > 0 THEN Mean(rows) ELSE Zero

\* Series.nunique()
NUnique(rows, col) == Cardinality({ rows[i][col] : i \in DOMAIN rows })

RECURSIVE SortedKeys(_, _)
\* the group keys in ascending order (groupby sorts its keys)
SortedKeys(col, keys) ==
    IF keys = {} THEN <<>>
    ELSE LET k == CHOOSE x \in keys :
                    \A y \in keys : KeyRank(col, x) <= KeyRank(col, y)
         IN  <<k>> \o SortedKeys(col, keys \ {k})

\* GroupTotal taking the group's first row for its sum
GroupFirst(rows, col, k) ==
    LET member(row) == row[col] = k
    IN  Head(SelectSeq(rows, member)).total

\* the sum of total over the rows of one group
GroupTotal(rows, col, k) ==
    LET member(row) == row[col] = k
    IN  SumTotal(SelectSeq(rows, member))

\* df.groupby(col)['total'].sum(): one entry per key that occurs, keys ascending
GroupSum(rows, col) ==
    LET keys == SortedKeys(col, { rows[i][col] : i \in DOMAIN rows })
    IN  [i \in 1..Len(keys) |-> [key |-> keys[i], value |-> GroupTotal(rows, col, keys[i])]]

RECURSIVE InsertDesc(_, _)
\* e put into a descending sequence behind every entry that is not smaller
InsertDesc(e, s) ==
    IF s = <<>> THEN <<e>>
    ELSE IF Head(s).value >= e.value THEN <<Head(s)>> \o InsertDesc(e, Tail(s))
    ELSE <<e>> \o s

RECURSIVE SortValuesDesc(_)
\* Series.sort_values(ascending=False); equal values keep the Series' order
SortValuesDesc(s) ==
    IF s = <<>> THEN <<>>
    ELSE InsertDesc(s[Len(s)], SortValuesDesc(SubSeq(s, 1, Len(s) - 1)))

\* HeadN that keeps one entry more
HeadInclusive(s, n) == SubSeq(s, 1, Min(n + 1, Len(s)))

\* Series.head(n)
HeadN(s, n) == SubSeq(s, 1, Min(n, Len(s)))

\* groupby(col)['total'].sum().sort_values(ascending=False)
GroupSales(rows, col) == SortValuesDesc(GroupSum(rows, col))

\* ....head(10)
TopSales(rows, col) == HeadN(GroupSales(rows, col), TopN)

\* CumSum that repeats the totals instead of adding them up
NoCumSum(s) == [i \in 1..Len(s) |-> s[i].total]

RECURSIVE CumSum(_)
\* Series.cumsum(): the running sums of the total column
CumSum(s) ==
    IF s = <<>> THEN <<>>
    ELSE LET before == CumSum(SubSeq(s, 1, Len(s) - 1))
         IN  Append(before,
                    (IF before = <<>> THEN 0 ELSE before[Len(before)]) + s[Len(s)].total)

\* groupby('date')['total'].sum().reset_index(): the key is the date column itself
DailyTotals(rows) ==
    LET g == GroupSum(rows, "date")
    IN  [i \in 1..Len(g) |-> [date |-> g[i].key, total |-> g[i].value]]

\* daily_sales with its cumulative column
DailySales(rows) ==
    LET d == DailyTotals(rows)
        c == CumSum(d)
    IN  [i \in 1..Len(d) |-> [date |-> d[i].date, total |-> d[i].total, cumulative |-> c[i]]]

\* bins and labels of pd.cut
AgeBins == <<0, 20, 30, 40, 50, 60, 100>>

AgeLabels == <<"10s", "20s", "30s", "40s", "50s", "60s+">>

NaN == "NaN"

\* Cut with the lowest edge included in the first bin
CutIncludeLowest(age) ==
    IF age = AgeBins[1] THEN AgeLabels[1]
    ELSE IF \E i \in 1..Len(AgeLabels) : AgeBins[i] < age /\ age <= AgeBins[i + 1]
    THEN AgeLabels[CHOOSE i \in 1..Len(AgeLabels) : AgeBins[i] < age /\ age <= AgeBins[i + 1]]
    ELSE NaN

\* pd.cut(age, bins, labels): bin i is (bins[i], bins[i+1]]; outside every bin: NaN
Cut(age) ==
    IF \E i \in 1..Len(AgeLabels) : AgeBins[i] < age /\ age <= AgeBins[i + 1]
    THEN AgeLabels[CHOOSE i \in 1..Len(AgeLabels) : AgeBins[i] < age /\ age <= AgeBins[i + 1]]
    ELSE NaN

\* WithAgeGroup that drops the rows left without a label
WithAgeGroupDropNa(df) ==
    LET labelled(row) == Cut(row.age) # NaN
        kept == SelectSeq(df, labelled)
    IN  [i \in 1..Len(kept) |->
            [customer_id |-> kept[i].customer_id, age |-> kept[i].age,
             age_group |-> Cut(kept[i].age)]]

\* customer_df['age_group'] = pd.cut(...): the column is set on the table
WithAgeGroup(df) ==
    [i \in 1..Len(df) |->
        [customer_id |-> df[i].customer_id, age |-> df[i].age, age_group |-> Cut(df[i].age)]]

\* value_counts().sort_index() of the categorical column: every label, in label
\* order, with the number of rows that carry it; NaN rows are not counted
AgeDist(df) ==
    [i \in 1..Len(AgeLabels) |->
        [key |-> AgeLabels[i],
         value |-> Cardinality({ j \in DOMAIN df : df[j].age_group = AgeLabels[i] })]]

----------------------------------------------------------------------------
(* The sidebar widgets *)

\* sales_df['date'].min().date() and .max().date()
MinDate(df) == CHOOSE d \in { DateOf(df[i].date) : i \in DOMAIN df } :
                   \A i \in DOMAIN df : d <= DateOf(df[i].date)

MaxDate(df) == CHOOSE d \in { DateOf(df[i].date) : i \in DOMAIN df } :
                   \A i \in DOMAIN df : d >= DateOf(df[i].date)

\* sales_df[col].unique(): the options and the default of a multiselect
Unique(df, col) == { df[i][col] : i \in DOMAIN df }

\* what the range date_input can return: a start and an end between min_value and
\* max_value, or the start alone while the end has not been picked yet
DateInputValues(df) ==
    { r \in (MinDate(df)..MaxDate(df)) \X (MinDate(df)..MaxDate(df)) : r[1] <= r[2] }
    \cup { <<s>> : s \in MinDate(df)..MaxDate(df) }

\* a fresh run of the script: nothing computed yet
Fresh ==
    /\ pc' = "filter"
    /\ err' = "none"
    /\ filtered_sales' = <<>>
    /\ total_sales' = 0
    /\ transaction_count' = 0
    /\ avg_transaction' = Zero
    /\ unique_customers' = 0
    /\ region_sales' = <<>>
    /\ category_sales' = <<>>
    /\ payment_method' = <<>>
    /\ grade_sales' = <<>>
    /\ age_dist' = <<>>
    /\ top_products' = <<>>
    /\ top_customers' = <<>>
    /\ daily_sales' = <<>>

\* load_data() under st.cache_data: each run gets its own copy of the cached tables
Rerun ==
    /\ customer_df' = cache.customer_df
    /\ sales_df' = cache.sales_df
    /\ Fresh
    /\ UNCHANGED cache

ChangeDateRange ==
    \E dr \in DateInputValues(sales_df) :
        /\ dr # date_range
        /\ date_range' = dr
        /\ Rerun
        /\ UNCHANGED <<regions, categories>>

ChangeRegions ==
    \E rs \in SUBSET Unique(sales_df, "region") :
        /\ rs # regions
        /\ regions' = rs
        /\ Rerun
        /\ UNCHANGED <<date_range, categories>>

ChangeCategories ==
    \E cs \in SUBSET Unique(sales_df, "category") :
        /\ cs # categories
        /\ categories' = cs
        /\ Rerun
        /\ UNCHANGED <<date_range, regions>>

----------------------------------------------------------------------------
(* The steps of one script run *)

inputs == <<cache, sales_df, date_range, regions, categories>>

\* filtered_sales = sales_df[...]; date_range[1] of a one-element tuple raises
ApplyFilter ==
    /\ pc = "filter"
    /\ IF Len(date_range) < 2
       THEN /\ pc' = "error"
            /\ err' = "IndexError"
            /\ UNCHANGED filtered_sales
       ELSE /\ filtered_sales' = Filter(sales_df, date_range, regions, categories)
            /\ pc' = "kpi"
            /\ UNCHANGED err
    /\ UNCHANGED <<inputs, customer_df, total_sales, transaction_count, avg_transaction,
                   unique_customers, region_sales, category_sales, payment_method,
                   grade_sales, age_dist, top_products, top_customers, daily_sales>>

KPIMetrics ==
    /\ pc = "kpi"
    /\ total_sales' = SumTotal(filtered_sales)
    /\ transaction_count' = Len(filtered_sales)
    /\ avg_transaction' = AvgTransaction(filtered_sales, Len(filtered_sales))
    /\ unique_customers' = NUnique(filtered_sales, "customer_id")
    /\ pc' = "tab1"
    /\ UNCHANGED <<inputs, customer_df, err, filtered_sales, region_sales, category_sales,
                   payment_method, grade_sales, age_dist, top_products, top_customers,
                   daily_sales>>

Tab1 ==
    /\ pc = "tab1"
    /\ region_sales' = GroupSales(filtered_sales, "region")
    /\ category_sales' = GroupSales(filtered_sales, "category")
    /\ payment_method' = GroupSales(filtered_sales, "payment")
    /\ grade_sales' = GroupSales(filtered_sales, "grade")
    /\ pc' = "tab2"
    /\ UNCHANGED <<inputs, customer_df, err, filtered_sales, total_sales, transaction_count,
                   avg_transaction, unique_customers, age_dist, top_products,
                   top_customers, daily_sales>>

Tab2 ==
    /\ pc = "tab2"
    /\ customer_df' = WithAgeGroup(customer_df)
    /\ age_dist' = AgeDist(WithAgeGroup(customer_df))
    /\ pc' = "tab3"
    /\ UNCHANGED <<inputs, err, filtered_sales, total_sales, transaction_count,
                   avg_transaction, unique_customers, region_sales, category_sales,
                   payment_method, grade_sales, top_products, top_customers, daily_sales>>

\* top_products is computed, then px.barh, which plotly.express does not have,
\* raises AttributeError and ends the run
Tab3 ==
    /\ pc = "tab3"
    /\ top_products' = TopSales(filtered_sales, "product_name")
    /\ pc' = "error"
    /\ err' = "AttributeError"
    /\ UNCHANGED <<inputs, customer_df, filtered_sales, total_sales, transaction_count,
                   avg_transaction, unique_customers, region_sales, category_sales,
                   payment_method, grade_sales, age_dist, top_customers, daily_sales>>

\* the two rankings of tab 3 as computations, the chart calls left aside
TopAnalysis ==
    /\ pc = "tab3"
    /\ top_products' = TopSales(filtered_sales, "product_name")
    /\ top_customers' = TopSales(filtered_sales, "name")
    /\ pc' = "tab4"
    /\ UNCHANGED <<inputs, customer_df, err, filtered_sales, total_sales, transaction_count,
                   avg_transaction, unique_customers, region_sales, category_sales,
                   payment_method, grade_sales, age_dist, daily_sales>>

\* daily_sales and its cumulative column
Tab4 ==
    /\ pc = "tab4"
    /\ daily_sales' = DailySales(filtered_sales)
    /\ pc' = "done"
    /\ UNCHANGED <<inputs, customer_df, err, filtered_sales, total_sales, transaction_count,
                   avg_transaction, unique_customers, region_sales, category_sales,
                   payment_method, grade_sales, age_dist, top_products, top_customers>>

----------------------------------------------------------------------------
(* Specifications *)

\* the tables load_data can return: every transaction table with one customer
\* table, and every customer table with one transaction table
OneCustomerTable == <<[customer_id |-> 1, age |-> 20], [customer_id |-> 2, age |-> 61]>>

OneSalesTable == <<SalesRow(Timestamp(1, 0), 1, "P01", "Books", 2, "Card", "Seoul", "Gold")>>

LoadedData ==
    { [sales_df |-> s, customer_df |-> OneCustomerTable] : s \in SalesTables }
    \cup { [sales_df |-> OneSalesTable, customer_df |-> c] : c \in CustomerTables }

Start(data) ==
    /\ cache = data
    /\ customer_df = data.customer_df
    /\ sales_df = data.sales_df
    /\ pc = "filter"
    /\ err = "none"
    /\ filtered_sales = <<>>
    /\ total_sales = 0
    /\ transaction_count = 0
    /\ avg_transaction = Zero
    /\ unique_customers = 0
    /\ region_sales = <<>>
    /\ category_sales = <<>>
    /\ payment_method = <<>>
    /\ grade_sales = <<>>
    /\ age_dist = <<>>
    /\ top_products = <<>>
    /\ top_customers = <<>>
    /\ daily_sales = <<>>

\* the first run: every widget at its default
Init ==
    \E data \in LoadedData :
        /\ Start(data)
        /\ date_range = <<MinDate(data.sales_df), MaxDate(data.sales_df)>>
        /\ regions = Unique(data.sales_df, "region")
        /\ categories = Unique(data.sales_df, "category")

Next ==
    \/ ChangeDateRange
    \/ ChangeRegions
    \/ ChangeCategories
    \/ ApplyFilter
    \/ KPIMetrics
    \/ Tab1
    \/ Tab2
    \/ Tab3

\* the script as it runs under Streamlit
Spec == Init /\ [][Next]_vars

\* criteria as inputs of the computations: every start and end, every selection
Criteria ==
    [date_range : Days \X Days, regions : SUBSET {"Seoul", "Busan"},
     categories : SUBSET {"Books", "Food"}]

InitEngine ==
    \E s \in SalesTables, c \in Criteria :
        /\ Start([sales_df |-> s, customer_df |-> OneCustomerTable])
        /\ date_range = c.date_range
        /\ regions = c.regions
        /\ categories = c.categories

NextEngine ==
    \/ ApplyFilter
    \/ KPIMetrics
    \/ Tab1
    \/ Tab2
    \/ TopAnalysis
    \/ Tab4

\* the computations of the script applied to every table and every criteria
SpecEngine == InitEngine /\ [][NextEngine]_vars

----------------------------------------------------------------------------
(* How far the run has come *)

Ran(step) ==
    LET order == <<"filter", "kpi", "tab1", "tab2", "tab3", "tab4", "done">>
        at(p) == CHOOSE i \in 1..Len(order) : order[i] = p
    IN  IF pc = "error" THEN err = "AttributeError" /\ at(step) <= at("tab3")
        ELSE at(step) < at(pc)

RECURSIVE SumValues(_)
SumValues(s) == IF s = <<>> THEN 0 ELSE Head(s).value + SumValues(Tail(s))

\* the sum of total over the rows of X that satisfy a condition on the row index
RECURSIVE SumOver(_, _)
SumOver(X, I) ==
    IF I = {} THEN 0
    ELSE LET i == CHOOSE j \in I : TRUE IN X[i].total + SumOver(X, I \ {i})

----------------------------------------------------------------------------
(* C1 *)

\* the rows the inclusion rule of the filter retains
Retained ==
    { i \in DOMAIN sales_df :
        /\ date_range[1] <= DateOf(sales_df[i].date)
        /\ DateOf(sales_df[i].date) <= date_range[2]
        /\ sales_df[i].region \in regions
        /\ sales_df[i].category \in categories }

\* the j-th retained row, counting in the table's order
NthRetained(j) == CHOOSE i \in Retained : Cardinality({ k \in Retained : k <= i }) = j

\* C1: a row is in the filtered table iff its calendar date lies in
\* [date_start, date_end], its region is selected and its category is selected,
\* and the retained rows keep the order they have in the table.
C1_FilterInclusion ==
    Ran("filter") =>
        /\ Len(filtered_sales) = Cardinality(Retained)
        /\ \A j \in 1..Len(filtered_sales) : filtered_sales[j] = sales_df[NthRetained(j)]

\* two rows retained around a dropped one, and a row dropped for each reason
C1_Witness ==
    /\ Ran("filter")
    /\ Len(filtered_sales) >= 2
    /\ \E i, j, k \in DOMAIN sales_df :
          i < j /\ j < k /\ i \in Retained /\ j \notin Retained /\ k \in Retained
    /\ \E i \in DOMAIN sales_df : DateOf(sales_df[i].date) > date_range[2]
    /\ \E i \in DOMAIN sales_df : sales_df[i].region \notin regions

----------------------------------------------------------------------------
(* C2 *)

\* a group-sum Series partitions X on column col: every key of X once, no other key
Partitions(series, X, col) ==
    /\ { series[i].key : i \in DOMAIN series } = { X[i][col] : i \in DOMAIN X }
    /\ \A i, j \in DOMAIN series : series[i].key = series[j].key => i = j
    /\ \A i \in DOMAIN series :
          series[i].value = SumOver(X, { j \in DOMAIN X : X[j][col] = series[i].key })

\* C2: for each of region, category, payment method and grade, the per-group
\* sums add up to total_sales of the filtered table; every filtered row is in
\* exactly one group and no group is without a row.
C2_GroupSumsPartitionTotal ==
    Ran("tab1") =>
        /\ SumValues(region_sales) = total_sales
        /\ SumValues(category_sales) = total_sales
        /\ SumValues(payment_method) = total_sales
        /\ SumValues(grade_sales) = total_sales
        /\ Partitions(region_sales, filtered_sales, "region")
        /\ Partitions(category_sales, filtered_sales, "category")
        /\ Partitions(payment_method, filtered_sales, "payment")
        /\ Partitions(grade_sales, filtered_sales, "grade")

\* a filter that drops rows, two regions left, one of them with several rows
C2_Witness ==
    /\ Ran("tab1")
    /\ Len(filtered_sales) < Len(sales_df)
    /\ Len(region_sales) = 2
    /\ Len(filtered_sales) > 2
    /\ regions # {} /\ total_sales > 0

----------------------------------------------------------------------------
(* C3 *)

\* C3: cumulative is the running sum of the daily totals, it never decreases
\* when no total is negative, and its last value is total_sales.
C3_CumulativeIsPrefixSum ==
    Ran("tab4") =>
        /\ \A i \in DOMAIN daily_sales :
              daily_sales[i].cumulative =
                  (IF i = 1 THEN 0 ELSE daily_sales[i - 1].cumulative) + daily_sales[i].total
        /\ (\A i \in DOMAIN filtered_sales : filtered_sales[i].total >= 0) =>
              \A i \in DOMAIN daily_sales :
                  i > 1 => daily_sales[i - 1].cumulative <= daily_sales[i].cumulative
        /\ filtered_sales # <<>> =>
              daily_sales[Len(daily_sales)].cumulative = total_sales

\* three points whose totals are positive
C3_Witness ==
    /\ Ran("tab4")
    /\ Len(daily_sales) >= 3
    /\ \A i \in DOMAIN filtered_sales : filtered_sales[i].total > 0
    /\ daily_sales[3].cumulative > daily_sales[2].cumulative

----------------------------------------------------------------------------
(* C4 *)

\* top is a top-N ranking of X on column col
IsTopN(top, X, col) ==
    LET keys == { X[i][col] : i \in DOMAIN X }
        returned == { top[i].key : i \in DOMAIN top }
        sum(k) == SumOver(X, { j \in DOMAIN X : X[j][col] = k })
    IN  /\ Len(top) <= TopN
        /\ Len(top) = Min(TopN, Cardinality(keys))
        /\ Cardinality(returned) = Len(top)
        /\ returned \subseteq keys
        /\ \A i \in DOMAIN top : top[i].value = sum(top[i].key)
        /\ \A i \in DOMAIN top : \A k \in keys \ returned : top[i].value >= sum(k)
        /\ top = SubSeq(GroupSales(X, col), 1, Len(top))

\* C4: each top-10 ranking has min(10, number of groups) entries, every entry's
\* sum is at least the sum of every group left out, and the entries are the
\* first ones of the descending ranking of all groups, in its order.
C4_TopNIsPrefixOfRanking ==
    Ran("tab3") /\ pc # "error" =>
        /\ IsTopN(top_products, filtered_sales, "product_name")
        /\ IsTopN(top_customers, filtered_sales, "name")

\* more than ten products: the ranking is cut, and a tie sits on the cut
C4_Witness ==
    /\ pc = "done"
    /\ Len(top_products) = TopN
    /\ Cardinality({ filtered_sales[i].product_name : i \in DOMAIN filtered_sales }) > TopN
    /\ \E i \in DOMAIN filtered_sales :
          /\ \A j \in DOMAIN top_products : top_products[j].key # filtered_sales[i].product_name
          /\ filtered_sales[i].total = top_products[TopN].value

----------------------------------------------------------------------------
(* C5, C6 *)

\* the bucket the specification gives a positive age: upper edges inclusive, no
\* upper limit on the last one
Bucket(age) ==
    IF age <= 20 THEN "10s"
    ELSE IF age <= 30 THEN "20s"
    ELSE IF age <= 40 THEN "30s"
    ELSE IF age <= 50 THEN "40s"
    ELSE IF age <= 60 THEN "50s"
    ELSE "60s+"

\* C5: every age above 0 gets the label of its bucket, (0,20] up to (50,60] and
\* "60s+" for every age above 60 however large, and with only positive ages the
\* counts of the age distribution add up to the number of customers.
C5_EveryPositiveAgeBucketed ==
    Ran("tab2") =>
        /\ \A i \in DOMAIN customer_df :
              customer_df[i].age > 0 => customer_df[i].age_group = Bucket(customer_df[i].age)
        /\ (\A i \in DOMAIN customer_df : customer_df[i].age > 0) =>
              SumValues(age_dist) = Len(customer_df)

HasNonPositiveAge == \E i \in DOMAIN cache.customer_df : cache.customer_df[i].age <= 0

\* C6 as claimed: with a customer of age 0 or less the age distribution is not
\* returned; the run ends in OutOfDomainValue where it is computed.
C6_NonPositiveAgeRaises ==
    HasNonPositiveAge =>
        /\ age_dist = <<>>
        /\ ~Ran("tab2")
        /\ pc = "error" => err = "OutOfDomainValue"

\* C6 as the script behaves: a customer of age 0 or less raises nothing; the
\* customer gets no age_group label and is counted in no bucket, so the counts
\* add up to the number of customers that have a label.
C6_NonPositiveAgeUnlabelled ==
    Ran("tab2") =>
        /\ err # "OutOfDomainValue"
        /\ \A i \in DOMAIN customer_df :
              customer_df[i].age <= 0 => customer_df[i].age_group = NaN
        /\ \A i \in DOMAIN age_dist :
              age_dist[i].value =
                  Cardinality({ j \in DOMAIN customer_df :
                                  /\ customer_df[j].age > 0
                                  /\ customer_df[j].age_group = age_dist[i].key })
        /\ SumValues(age_dist) <=
              Cardinality({ j \in DOMAIN customer_df : customer_df[j].age > 0 })

\* the distribution of a table with a customer of age 0 and one of age 20
C6_Witness ==
    /\ Ran("tab2")
    /\ \E i, j \in DOMAIN customer_df :
          /\ customer_df[i].age = 0 /\ customer_df[i].age_group = NaN
          /\ customer_df[j].age = 20
    /\ SumValues(age_dist) = 1

----------------------------------------------------------------------------
(* C7 *)

----------------------------------------------------------------------------
(* C8 *)

\* C8 as claimed: both tables are as load_data gave them, after every step.
C8_TablesNeverChange ==
    /\ sales_df = cache.sales_df
    /\ customer_df = cache.customer_df

\* C8 as the script behaves: the transaction table is never changed and the
\* customer table keeps its rows and the values it was loaded with, but the
\* customer analysis stores the derived age_group on it as a further column.
C8_OnlyAgeGroupIsAdded ==
    /\ sales_df = cache.sales_df
    /\ Len(customer_df) = Len(cache.customer_df)
    /\ \A i \in DOMAIN customer_df :
          /\ customer_df[i].customer_id = cache.customer_df[i].customer_id
          /\ customer_df[i].age = cache.customer_df[i].age
          /\ IF Ran("tab2")
             THEN /\ DOMAIN customer_df[i] = {"customer_id", "age", "age_group"}
                  /\ customer_df[i].age_group \in {Bucket(customer_df[i].age), NaN}
             ELSE customer_df[i] = cache.customer_df[i]

\* a second pass, after the first one stored age_group, has stored it again
C8_Witness ==
    /\ Ran("tab2")
    /\ customer_df # cache.customer_df
    /\ \E i \in DOMAIN customer_df : customer_df[i].age_group = "20s"
    /\ regions # Unique(sales_df, "region")

----------------------------------------------------------------------------
(* C9 *)

CalendarDates(X) == { DateOf(X[i].date) : i \in DOMAIN X }

\* C9: the daily series has one point per calendar date of the filtered table
\* and no other, in strictly ascending date order, and a point's total is the sum
\* over the rows of that calendar date, whatever their time of day.
C9_OnePointPerCalendarDate ==
    Ran("tab4") =>
        /\ Len(daily_sales) = Cardinality(CalendarDates(filtered_sales))
        /\ { DateOf(daily_sales[i].date) : i \in DOMAIN daily_sales }
              = CalendarDates(filtered_sales)
        /\ \A i \in DOMAIN daily_sales :
              i > 1 => DateOf(daily_sales[i - 1].date) < DateOf(daily_sales[i].date)
        /\ \A i \in DOMAIN daily_sales :
              daily_sales[i].total =
                  SumOver(filtered_sales,
                          { j \in DOMAIN filtered_sales :
                              DateOf(filtered_sales[j].date) = DateOf(daily_sales[i].date) })

----------------------------------------------------------------------------
(* C10 *)

Inverted == date_range[1] > date_range[2]

====
